---- MODULE Spec2Model ----
(***************************************************************************)
(* components::PostgreCache<Policy> (postgresql/include/cache/             *)
(* base_postgres_cache.hpp): one cache instance, its periodic Update       *)
(* coroutine, and concurrent readers of the published snapshot.            *)
(*                                                                         *)
(* Containers live in a small heap of objects so that "the same           *)
(* reference" and "a deep copy" are different things.  The Update          *)
(* coroutine is cut at its suspension points: every database call          *)
(* (Execute, Begin, MakePortal, Fetch, Commit) and the yield inside        *)
(* utils::CpuRelax.  Reader steps interleave at each of them.              *)
(***************************************************************************)
EXTENDS Integers, Sequences, FiniteSets, TLC

(* ------------------------------ bounds -------------------------------- *)
NumShards == 2          \* shard_count of the Postgres component
MaxRows == 3            \* most rows the database returns to one update
MaxRowsYield == 6       \* the same, where the rows are plain (see PlainRows)
MaxChunk == 1           \* largest configured chunk-size
MaxElapsed == 12        \* longest accumulated parse phase, in ms
NumReaders == 1         \* concurrent holders of snapshot handles
ChunkCalls == 2         \* the chunk-size where the database calls are recorded
MaxRowsRelax == 11      \* most rows of one update where the relaxer's runs are recorded

Keys == {1, 2}          \* values of the policy's kKeyMember
Vals == {1, 2}          \* payloads of ValueType
NoVal == 0              \* "key absent" in a container
Shards == 1..NumShards
Readers == 1..NumReaders
Ids == 1..(NumReaders + 2)   \* heap objects: slot + working + one per reader
Null == 0               \* empty pointer

(* --------------------------- program constants ------------------------ *)
kCpuRelaxThreshold == 10
kCpuRelaxInterval == 2
kFull == "kFull"
kIncremental == "kIncremental"
UpdateTypes == {kFull, kIncremental}
kCopyStage == "copy_data"
kFetchStage == "fetch"
kParseStage == "parse"

(* A DataType container: key -> value, NoVal where the key is absent.     *)
Containers == [Keys -> Vals \cup {NoVal}]
EmptyContainer == [k \in Keys |-> NoVal]
KeySet(c) == {k \in Keys : c[k] # NoVal}
Size(c) == Cardinality(KeySet(c))

(* A fetched row: it decodes to a value with a key, or decoding (or key   *)
(* extraction) raises; the key is a function of the decoded value, so a   *)
(* row that does not decode has none.                                     *)
BadRow == [ok |-> FALSE, key |-> 0, val |-> 0]
Rows == [ok : {TRUE}, key : Keys, val : Vals] \cup {BadRow}
\* Rows that all decode to the same key and payload: enough to tell a
\* container from the one it was copied from, and few enough to let one
\* update read many.
PlainRows == {[ok |-> TRUE, key |-> 1, val |-> 1]}
RowsOfLen(RS, n) == [1..n -> RS]

VARIABLES
  kIncrementalUpdates,   \* policy: kUpdatedField is non-empty
  chunk_size_,           \* config "chunk-size"
  published,             \* the snapshot slot of CachingComponentBase (Null on cold start)
  heap,                  \* heap[id]: contents of container object id
  reader,                \* reader[r]: the handle reader r holds (Null: none)
  cpu_relax_iterations_,
  pc,                    \* where the Update coroutine is suspended
  type, query, timeout,  \* locals of Update
  data_cache,            \* Update's unique_ptr to the working container
  shard,                 \* index of the cluster being iterated
  changes,
  res_size, res_left,    \* the ResultSet being decoded: its size, rows not yet decoded
  portal_done,           \* the open portal is exhausted
  scope,                 \* name of the running ScopeTime phase ("" after Reset())
  stats_scope,           \* the UpdateStatisticsScope of the current/last Update
  ret,                   \* how the last Update call ended
  g,                     \* history of the current/last Update (not program state)
  policy,                \* the policy's kQuery (statement, name), kWhere, kUpdatedField,
                         \* and whether it defines GetLastKnownUpdated
  config,                \* the component's static config
  ctor,                  \* the constructor: where it stands, clusters_, what it did
  last_update,           \* Update's argument last_update
  db                     \* the database: the table behind each cluster, and the
                         \* rows the open portal has not delivered yet

progVars == <<kIncrementalUpdates, chunk_size_, published, heap, reader,
              cpu_relax_iterations_, pc, type, query, timeout, data_cache,
              shard, changes, res_size, res_left, portal_done,
              scope, stats_scope, ret>>
envVars == <<policy, config, ctor, last_update, db>>
vars == <<progVars, g, envVars>>

(* ------------------------- configuration ------------------------------ *)
full_update_timeout_ == 60000           \* kDefaultFullUpdateTimeout, ms
incremental_update_timeout_ == 1000     \* kDefaultIncrementalUpdateTimeout, ms
kStatementTimeoutOff == 0

correction_ == config.correction         \* config "update-correction", ms

(* A policy: kQuery / GetQuery() is a Query (statement and name); kWhere  *)
(* may be absent; an empty kUpdatedField switches incremental updates     *)
(* off; GetLastKnownUpdated may be defined.                               *)
PolicyOf(stmt, name, hasWhere, where, field, custom) ==
  [kQuery |-> [statement |-> stmt, name |-> name],
   kHasWhere |-> hasWhere, kWhere |-> where,
   kUpdatedField |-> field, kHasCustomUpdated |-> custom]
kWantIncrementalUpdates(p) == p.kUpdatedField # ""

(* The policy of the specifications that are not about the query text.    *)
PlainPolicy(inc, custom) ==
  PolicyOf("Q", "N", FALSE, "", IF inc THEN "U" ELSE "", custom)

(* PolicyChecker::GetQuery(): the policy's query.                         *)
GetQuery == policy.kQuery

(* GetAllQuery() / GetDeltaQuery(): fmt::format on the statement of the   *)
(* policy's query, the query's name kept.                                 *)
GetAllQuery ==
  IF policy.kHasWhere
    THEN [statement |-> GetQuery.statement \o " where " \o policy.kWhere,
          name |-> GetQuery.name]
    ELSE GetQuery
GetDeltaQueryStrict ==
  IF kIncrementalUpdates
    THEN IF policy.kHasWhere
           THEN [statement |-> GetQuery.statement \o " where (" \o policy.kWhere
                                 \o ") and " \o policy.kUpdatedField \o " > $1",
                 name |-> GetQuery.name]
           ELSE [statement |-> GetQuery.statement \o " where "
                                 \o policy.kUpdatedField \o " > $1",
                 name |-> GetQuery.name]
    ELSE GetAllQuery
GetDeltaQuery ==
  IF kIncrementalUpdates
    THEN IF policy.kHasWhere
           THEN [statement |-> GetQuery.statement \o " where (" \o policy.kWhere
                                 \o ") and " \o policy.kUpdatedField \o " >= $1",
                 name |-> GetQuery.name]
           ELSE [statement |-> GetQuery.statement \o " where "
                                 \o policy.kUpdatedField \o " >= $1",
                 name |-> GetQuery.name]
    ELSE GetAllQuery

(* The policy's GetLastKnownUpdated(cache) where it is defined: the       *)
(* largest revision the container holds (a value's payload is the value   *)
(* of its update field), 0 for an empty container.                        *)
GetLastKnownUpdated(cache) ==
  CHOOSE m \in {cache[k] : k \in Keys} :
    \A k \in Keys : cache[k] <= m

(* GetLastUpdated(last_update, cache): the bound passed as $1.            *)
GetLastUpdatedPlus(lu, cache) ==
  IF policy.kHasCustomUpdated THEN GetLastKnownUpdated(cache)
                              ELSE lu + correction_
GetLastUpdatedAlwaysKnown(lu, cache) == GetLastKnownUpdated(cache)
GetLastUpdated(lu, cache) ==
  IF policy.kHasCustomUpdated THEN GetLastKnownUpdated(cache)
                              ELSE lu - correction_

(* ------------------------------ the heap ------------------------------ *)
Refs == ({published, data_cache} \cup {reader[r] : r \in Readers}) \ {Null}
FreshId == CHOOSE i \in Ids : i \notin Refs /\ \A j \in Ids : j \notin Refs => i <= j

\* make_unique<DataType> of the published container, or a default-constructed
\* one: always a new object; a copy of the published one only for an
\* incremental update that finds a published snapshot.
GetDataSnapshotShared(t) ==
  IF t = kIncremental /\ published # Null
    THEN [ptr |-> published, data |-> heap[published]]
    ELSE [ptr |-> FreshId, data |-> EmptyContainer]
GetDataSnapshotCopying(t) ==
  IF published # Null
    THEN [ptr |-> FreshId, data |-> heap[published]]
    ELSE [ptr |-> FreshId, data |-> EmptyContainer]
GetDataSnapshot(t) ==
  IF t = kIncremental /\ published # Null
    THEN [ptr |-> FreshId, data |-> heap[published]]
    ELSE [ptr |-> FreshId, data |-> EmptyContainer]

(* ------------------------- row decoding ------------------------------- *)
InsertOrErase(c, k, v) ==
  IF c[k] = NoVal THEN [c EXCEPT ![k] = v] ELSE [c EXCEPT ![k] = NoVal]
Insert(c, k, v) == IF c[k] = NoVal THEN [c EXCEPT ![k] = v] ELSE c
InsertOrAssign(c, k, v) == [c EXCEPT ![k] = v]

(* One pass of the loop body of CacheResults: decode, extract the key,    *)
(* upsert; an exception is counted and the loop goes on.                  *)
CacheRow(acc, row) ==
  IF row.ok
    THEN [acc EXCEPT !.data = InsertOrAssign(@, row.key, row.val)]
    ELSE [acc EXCEPT !.failures = @ + 1]

RECURSIVE CacheRowsStop(_, _)
CacheRowsStop(acc, rows) ==
  IF rows = <<>> THEN acc
  ELSE IF ~Head(rows).ok THEN [acc EXCEPT !.failures = @ + 1]
  ELSE CacheRowsStop(CacheRow(acc, Head(rows)), Tail(rows))
RECURSIVE CacheRows(_, _)
CacheRows(acc, rows) ==
  IF rows = <<>> THEN acc
  ELSE CacheRows(CacheRow(acc, Head(rows)), Tail(rows))

(* utils::CpuRelax::Relax(): with every = 0 a no-op; otherwise the        *)
(* counter grows and, on reaching every, is reset and the task yields.    *)
(* RunLength: how many rows are decoded before Relax() yields, from a     *)
(* relaxer whose counter stands at iter, with left rows to go.            *)
RECURSIVE RunLength(_, _, _)
RunLength(left, iter, every) ==
  IF left = 0 THEN 0
  ELSE IF every # 0 /\ iter + 1 = every THEN 0
  ELSE 1 + RunLength(left - 1, IF every = 0 THEN 0 ELSE iter + 1, every)

(* Line 517: CacheResults builds a relaxer for the result set it is given *)
(* from cpu_relax_iterations_ as it stands.                               *)
RelaxerPeriodTwice == 2 * cpu_relax_iterations_
RelaxerPeriod == cpu_relax_iterations_

(* --------------------- history of one Update -------------------------- *)
(* What the database delivered, recorded beside the program:              *)
(*   rowsR[k]  value of the last delivered row that decodes to key k      *)
(*   nGood, nBad  delivered rows that decode / that raise                 *)
(*   queried   shards a database call was issued to                       *)
(*   shards_done  shards whose loop body ran to its end                   *)
(*   raised    shard whose database call raised (0: none)                 *)
(*   slot0, snap0  the slot and its contents when Update was entered      *)
(*   sets      calls of Set;  whole[id]: object id was Set by an update   *)
(*             that had read every shard to the end                       *)
(*   data      whether the rows and snapshots (snap0, rowsR, nGood, nBad) *)
(*             are recorded at all                                        *)
(*   trace     whether the database calls are recorded at all             *)
(*   calls     the database calls that came back, in order, each with its *)
(*             arguments, the size of its result set and the rows of it   *)
(*             that CacheResults has been through                         *)
(*   elapsed   ElapsedTotal("parse") as measured at line 493              *)
(*   relax0    cpu_relax_iterations_ when Update was entered              *)
(*   prev      the update before this one (see Previous)                  *)
(*   relaxer   whether the runs between the relaxer's yields are recorded *)
(*   run       rows decoded since the relaxer last yielded (or since      *)
(*             Update was entered);  longest: the largest run so far;     *)
(*             yields: how often Relax() has yielded;  run_set and        *)
(*             longest_set: the same, a result set starting a new run     *)
(*   ever_returned   some Update has returned without an error            *)
(*   ever_loaded     some Update has returned without an error that was   *)
(*                   full or was delivered at least one row               *)
LastByKey(prev, rows) ==
  [k \in Keys |->
     LET hits == {i \in DOMAIN rows : rows[i].ok /\ rows[i].key = k}
     IN IF hits = {} THEN prev[k]
        ELSE rows[CHOOSE i \in hits : \A j \in hits : j <= i].val]
NumGood(rows) == Cardinality({i \in DOMAIN rows : rows[i].ok})

(* The rows one cluster delivered to an update, over all its calls.        *)
RECURSIVE ResultSet(_, _)
ResultSet(calls, s) ==
  IF calls = <<>> THEN <<>>
  ELSE (IF Head(calls).cluster = s THEN Head(calls).rows ELSE <<>>)
         \o ResultSet(Tail(calls), s)
NoPrev == [returned |-> FALSE, type |-> kFull, results |-> <<>>, pub |-> <<>>]
\* what is kept of the update before: how it ended, its kind, the result
\* set of every shard, the content of the slot it left
Previous(old) ==
  IF old.data /\ old.trace
    THEN [returned |-> ret = "returned", type |-> type,
          results |-> [s \in Shards |-> ResultSet(old.calls, s)],
          pub |-> IF published = Null THEN <<>> ELSE <<heap[published]>>]
    ELSE NoPrev

NewHistory(t, old) ==
  [data |-> old.data, requested |-> t, slot0 |-> published,
   prev |-> Previous(old),
   relaxer |-> old.relaxer, run |-> 0, longest |-> 0, yields |-> 0,
   run_set |-> 0, longest_set |-> 0,
   snap0 |-> IF old.data /\ published # Null THEN heap[published]
                                             ELSE EmptyContainer,
   rowsR |-> EmptyContainer, nGood |-> 0, nBad |-> 0,
   queried |-> 0, shards_done |-> 0, raised |-> 0, sets |-> 0,
   whole |-> old.whole,
   ever_returned |-> old.ever_returned, ever_loaded |-> old.ever_loaded,
   trace |-> old.trace, calls |-> <<>>, elapsed |-> 0,
   relax0 |-> IF old.trace \/ old.relaxer THEN cpu_relax_iterations_ ELSE 0]

ObserveRun(h, n) ==
  IF h.relaxer
    THEN [h EXCEPT !.run = @ + n,
                   !.longest = IF h.run + n > @ THEN h.run + n ELSE @,
                   !.run_set = @ + n,
                   !.longest_set = IF h.run_set + n > @ THEN h.run_set + n ELSE @]
    ELSE h
ObserveYield(h) ==
  IF h.relaxer THEN [h EXCEPT !.run = 0, !.run_set = 0, !.yields = @ + 1] ELSE h
ObserveSet(h) == IF h.relaxer THEN [h EXCEPT !.run_set = 0] ELSE h

ObserveCall(h, rows) ==
  IF h.trace /\ h.calls # <<>>
    THEN [h EXCEPT !.calls[Len(h.calls)].rows = @ \o rows]
    ELSE h
Observe(h, rows) ==
  IF ~h.data THEN ObserveCall(h, rows)
  ELSE [ObserveCall(h, rows) EXCEPT !.rowsR = LastByKey(@, rows),
                                    !.nGood = @ + NumGood(rows),
                                    !.nBad = @ + (Len(rows) - NumGood(rows))]

(* ------------------- the Update coroutine, as frames ------------------ *)
(* A frame holds Update's locals and the members it writes; each operator *)
(* below is a stretch of Update's code from one suspension point to the   *)
(* next, mapping the frame it is resumed with to the frame it suspends    *)
(* (or returns) with.                                                     *)
Frame ==
  [pc |-> pc, type |-> type, query |-> query, timeout |-> timeout,
   shard |-> shard, changes |-> changes,
   res_size |-> res_size, res_left |-> res_left,
   portal_done |-> portal_done,
   scope |-> scope, stats |-> stats_scope,
   work |-> IF data_cache = Null THEN EmptyContainer ELSE heap[data_cache],
   relax |-> cpu_relax_iterations_, set |-> FALSE, ret |-> ret, g |-> g]

NewStats == [docs_read |-> 0, parse_failures |-> 0, finish |-> <<>>]

(* pg::CommandControl{network timeout, statement timeout}                 *)
CommandControl(network, statement) ==
  [network |-> network, statement |-> statement]

(* The database call Update is suspended in, with the arguments lines     *)
(* 461-468 and 477-480 pass: an absent argument is <<>>.                  *)
Call(op, f) ==
  [op |-> op, cluster |-> ctor.clusters_[f.shard], mode |-> <<>>, cc |-> <<>>,
   query |-> <<>>, bound |-> <<>>, n |-> <<>>, size |-> <<>>, rows |-> <<>>,
   ok |-> TRUE]
PendingCall(f) ==
  CASE f.pc = "Execute" ->
         [Call("Execute", f) EXCEPT
            !.cc = <<CommandControl(f.timeout, kStatementTimeoutOff)>>,
            !.query = <<f.query>>,
            !.bound = <<GetLastUpdated(last_update, f.work)>>]
    [] f.pc = "Begin" ->
         [Call("Begin", f) EXCEPT
            !.mode = <<"RO">>,
            !.cc = <<CommandControl(f.timeout, kStatementTimeoutOff)>>]
    [] f.pc = "MakePortal" ->
         [Call("MakePortal", f) EXCEPT
            !.query = <<f.query>>,
            !.bound = <<GetLastUpdated(last_update, f.work)>>]
    [] f.pc = "Fetch" -> [Call("Fetch", f) EXCEPT !.n = <<chunk_size_>>]
    [] f.pc = "Commit" -> Call("Commit", f)
Log(f, c) == IF f.g.trace THEN [f EXCEPT !.g.calls = Append(@, c)] ELSE f
\* res.Size() of the result set the call came back with
LogSize(f, n) ==
  IF f.g.trace THEN [f EXCEPT !.g.calls[Len(f.g.calls)].size = <<n>>] ELSE f

(* Lines 489-510: scope.Reset(), the relax adaptation, then publish or    *)
(* report no changes; Update returns.                                     *)
RelaxAdaptOrReset(f, elapsed) ==
  IF f.changes > 0 /\ elapsed > kCpuRelaxThreshold
    THEN (f.changes * kCpuRelaxInterval) \div elapsed
    ELSE 0
RelaxAdaptIntegral(f, elapsed) ==
  IF f.changes > 0 /\ elapsed > kCpuRelaxThreshold
    THEN f.changes \div (elapsed \div kCpuRelaxInterval)
    ELSE f.relax
RelaxAdapt(f, elapsed) ==
  IF f.changes > 0 /\ elapsed > kCpuRelaxThreshold
    THEN (f.changes * kCpuRelaxInterval) \div elapsed
    ELSE f.relax

ShouldPublishAlways(f) == TRUE
ShouldPublishOnChanges(f) == f.changes > 0
ShouldPublishOnDecoded(f) ==
  f.changes - f.stats.parse_failures > 0 \/ f.type = kFull
ShouldPublish(f) == f.changes > 0 \/ f.type = kFull

Finish(f, elapsed) ==
  IF ShouldPublish(f)
    THEN [f EXCEPT !.scope = "", !.relax = RelaxAdapt(f, elapsed),
                   !.stats.finish =
                      Append(@, [kind |-> "Finish", size |-> Size(f.work)]),
                   !.set = TRUE, !.pc = "Idle", !.ret = "returned",
                   !.g.elapsed = IF f.g.trace THEN elapsed ELSE @]
    ELSE [f EXCEPT !.scope = "", !.relax = RelaxAdapt(f, elapsed),
                   !.stats.finish =
                      Append(@, [kind |-> "NoChanges", size |-> 0]),
                   !.pc = "Idle", !.ret = "returned",
                   !.g.elapsed = IF f.g.trace THEN elapsed ELSE @]

(* for (auto cluster : clusters_): the loop is left after the last shard. *)
LoopDoneAfterFirst(i) == i > 1
LoopDoneEarly(i) == i >= Len(ctor.clusters_)
LoopDone(i) == i > Len(ctor.clusters_)

IterateClusters(f, i, elapsed) ==
  IF LoopDone(i) THEN Finish(f, elapsed)
  ELSE [f EXCEPT !.shard = i,
                 !.pc = IF chunk_size_ > 0 THEN "Begin" ELSE "Execute",
                 !.g.queried = @ + 1]

(* After CacheResults returns: changes += res.Size(), then the portal     *)
(* loop's test (chunked) or the next cluster (single statement).          *)
AfterCacheResultsNoCommit(f, elapsed) ==
  IF chunk_size_ > 0 /\ ~f.portal_done
    THEN [f EXCEPT !.changes = @ + f.res_size, !.pc = "Fetch",
                   !.scope = kFetchStage]
    ELSE IterateClusters([f EXCEPT !.changes = @ + f.res_size,
                                   !.g.shards_done = @ + 1],
                         f.shard + 1, elapsed)
AfterCacheResultsOneFetch(f, elapsed) ==
  IF chunk_size_ > 0
    THEN [f EXCEPT !.changes = @ + f.res_size, !.pc = "Commit"]
    ELSE IterateClusters([f EXCEPT !.changes = @ + f.res_size,
                                   !.g.shards_done = @ + 1],
                         f.shard + 1, elapsed)
AfterCacheResults(f, elapsed) ==
  IF chunk_size_ > 0
    THEN IF f.portal_done
           THEN [f EXCEPT !.changes = @ + f.res_size, !.pc = "Commit"]
           ELSE [f EXCEPT !.changes = @ + f.res_size, !.pc = "Fetch",
                          !.scope = kFetchStage]
    ELSE IterateClusters([f EXCEPT !.changes = @ + f.res_size,
                                   !.g.shards_done = @ + 1],
                         f.shard + 1, elapsed)

(* CacheResults decodes rows (the next ones of the result set) and then   *)
(* either is suspended in Relax() or returns.                             *)
Suspend(f, elapsed) ==
  IF f.res_left > 0 THEN [f EXCEPT !.pc = "Relax", !.g = ObserveYield(@)]
  ELSE AfterCacheResults(f, elapsed)
Decoded(f, r, rows) ==
  [f EXCEPT !.work = r.data,
            !.stats.parse_failures = @ + r.failures,
            !.res_left = @ - Len(rows),
            !.g = ObserveRun(Observe(@, rows), Len(rows))]
CacheResults(f, rows, elapsed) ==
  Suspend(Decoded(f, CacheRows([data |-> f.work, failures |-> 0], rows), rows),
          elapsed)

(* An exception of the database layer leaves Update: nothing in the loop  *)
(* catches it, the working container dies with Update's frame.            *)
ThrowPublishing(f) == [f EXCEPT !.pc = "Idle", !.ret = "threw", !.scope = "", !.set = TRUE]
Throw(f) == [f EXCEPT !.pc = "Idle", !.ret = "threw", !.scope = ""]

(* The frame becomes the next state; dc is Update's data_cache pointer.   *)
(* Set(std::move(data_cache)) stores the pointer in the slot; objects no  *)
(* pointer refers to any more are destroyed.                              *)
Apply(f, dc) ==
  LET idle == f.pc = "Idle"
      pub == IF f.set THEN dc ELSE published
      dcp == IF idle THEN Null ELSE dc
      refs == ({pub, dcp} \cup {reader[r] : r \in Readers}) \ {Null}
      hp == [heap EXCEPT ![dc] = f.work]
  IN /\ published' = pub
     /\ data_cache' = dcp
     /\ heap' = [i \in Ids |-> IF i \in refs THEN hp[i] ELSE EmptyContainer]
     /\ cpu_relax_iterations_' = f.relax
     /\ pc' = f.pc
     /\ type' = f.type /\ query' = f.query /\ timeout' = f.timeout
     /\ shard' = IF idle THEN 0 ELSE f.shard
     /\ changes' = IF idle THEN 0 ELSE f.changes
     /\ res_size' = IF idle \/ f.pc # "Relax" THEN 0 ELSE f.res_size
     /\ res_left' = IF idle \/ f.pc # "Relax" THEN 0 ELSE f.res_left
     /\ portal_done' = (f.pc \in {"Fetch", "Relax", "Commit"} /\ f.portal_done)
     /\ scope' = f.scope
     /\ stats_scope' = f.stats
     /\ ret' = f.ret
     /\ g' = [f.g EXCEPT
                !.sets = @ + (IF f.set THEN 1 ELSE 0),
                !.ever_returned = @ \/ f.ret = "returned",
                !.ever_loaded = @ \/ (f.g.data /\ f.ret = "returned" /\
                                   (f.type = kFull \/ f.g.nGood + f.g.nBad > 0)),
                !.whole = [i \in Ids |->
                             IF i \notin refs THEN FALSE
                             ELSE IF f.set /\ i = dc
                               THEN f.g.shards_done = NumShards
                               ELSE @[i]]]

(* ------------------------------- Init --------------------------------- *)
Constructed(n) ==
  [pc |-> "done", clusters_ |-> [i \in 1..n |-> i], i |-> n + 1,
   started |-> 1, error |-> "", logged |-> <<>>]
PlainConfig ==
  [allowed |-> "kFullAndIncremental", correction |-> 0,
   pgcomponent |-> <<"pg">>, shard_count |-> NumShards]
NoTable == [table |-> [s \in Shards |-> <<>>], portal |-> <<>>]

(* The state a constructed component is in before its first Update;       *)
(* chunks: the configured chunk-size; history, trace: what the history    *)
(* records.                                                               *)
InitRecording(chunks, rec) ==
  /\ chunk_size_ \in chunks
  /\ published = Null
  /\ heap = [i \in Ids |-> EmptyContainer]
  /\ reader = [r \in Readers |-> Null]
  /\ cpu_relax_iterations_ = 0
  /\ pc = "Idle"
  /\ type = kFull /\ query = GetAllQuery /\ timeout = full_update_timeout_
  /\ data_cache = Null
  /\ shard = 0 /\ changes = 0 /\ res_size = 0 /\ res_left = 0
  /\ portal_done = FALSE
  /\ scope = ""
  /\ stats_scope = NewStats
  /\ ret = "none"
  /\ g = [data |-> rec.data, requested |-> kFull, slot0 |-> Null, snap0 |-> EmptyContainer,
          rowsR |-> EmptyContainer, nGood |-> 0, nBad |-> 0,
          queried |-> 0, shards_done |-> 0, raised |-> 0, sets |-> 0,
          whole |-> [i \in Ids |-> FALSE],
          ever_returned |-> FALSE, ever_loaded |-> FALSE,
          trace |-> rec.trace, calls |-> <<>>, elapsed |-> 0, relax0 |-> 0,
          prev |-> NoPrev,
          relaxer |-> rec.relaxer, run |-> 0, longest |-> 0, yields |-> 0,
          run_set |-> 0, longest_set |-> 0]
InitUpdate(chunks, history, trace) ==
  InitRecording(chunks, [data |-> history, trace |-> trace, relaxer |-> FALSE])

InitWith(history) ==
  /\ kIncrementalUpdates \in BOOLEAN
  /\ policy = PlainPolicy(kIncrementalUpdates, FALSE)
  /\ config = PlainConfig
  /\ ctor = Constructed(NumShards)
  /\ last_update = 0
  /\ db = NoTable
  /\ InitUpdate(0..MaxChunk, history, FALSE)

Init == InitWith(TRUE)
InitReaders == InitWith(FALSE) /\ kIncrementalUpdates

(* ------------------------------ actions ------------------------------- *)
Min(a, b) == IF a < b THEN a ELSE b

(* The measured ElapsedTotal("parse") matters only to a step that may run *)
(* Update to its return; at or below the threshold every value acts alike.*)
ElapsedMs == {0} \cup (kCpuRelaxThreshold..MaxElapsed)
ElapsedOf(returns) == IF returns THEN ElapsedMs ELSE {0}

(* The frame Update is resumed with when its database call comes back.    *)
Served == Log(Frame, PendingCall(Frame))

(* if constexpr (!kIncrementalUpdates) type = kFull                       *)
EffectiveTypeAsGiven(t) == t
EffectiveType(t) == IF ~kIncrementalUpdates THEN kFull ELSE t

(* Lines 444-448: the query and the timeout of this update.               *)
UpdateQuery(ty) == IF ty = kFull THEN GetAllQuery ELSE GetDeltaQuery
UpdateTimeoutFull(ty) == full_update_timeout_
UpdateTimeout(ty) ==
  IF ty = kFull THEN full_update_timeout_ ELSE incremental_update_timeout_

(* The scheduler calls Update(t, ...): lines 440-459, up to the first     *)
(* database call.                                                         *)
Update(t) ==
  /\ pc = "Idle"
  /\ LET ty == EffectiveType(t)
         snap == GetDataSnapshot(ty)
         f0 == [Frame EXCEPT
                  !.type = ty,
                  !.query = UpdateQuery(ty),
                  !.timeout = UpdateTimeout(ty),
                  !.scope = kFetchStage, !.changes = 0,
                  !.stats = NewStats, !.work = snap.data,
                  !.ret = "running", !.g = NewHistory(t, g)]
     IN \E f \in {IterateClusters(f0, 1, 0)} : Apply(f, snap.ptr)
  /\ UNCHANGED <<kIncrementalUpdates, chunk_size_, reader>>

(* cluster->Execute(...) returns a result set of n rows; lines 481-486.   *)
ExecuteOk(n, RS) ==
  /\ pc = "Execute"
  /\ LET f0 == [LogSize(Served, n) EXCEPT !.stats.docs_read = @ + n,
                              !.scope = kParseStage,
                              !.res_size = n, !.res_left = n,
                              !.g = ObserveSet(@)]
     IN \E rows \in RowsOfLen(RS, RunLength(n, 0, RelaxerPeriod)) :
          \E elapsed \in ElapsedOf(Len(rows) = n /\ chunk_size_ = 0) :
            \E f \in {CacheResults(f0, rows, elapsed)} : Apply(f, data_cache)
  /\ UNCHANGED <<kIncrementalUpdates, chunk_size_, reader>>

(* cluster->Begin(...) returns the transaction.                           *)
BeginOk ==
  /\ pc = "Begin"
  /\ Apply([Served EXCEPT !.pc = "MakePortal"], data_cache)
  /\ UNCHANGED <<kIncrementalUpdates, chunk_size_, reader>>

(* trx.MakePortal(...) returns an open portal; `while (portal)` is        *)
(* entered and the first Fetch is issued.                                 *)
MakePortalOk ==
  /\ pc = "MakePortal"
  /\ Apply([Served EXCEPT !.pc = "Fetch", !.scope = kFetchStage,
                          !.portal_done = FALSE],
           data_cache)
  /\ UNCHANGED <<kIncrementalUpdates, chunk_size_, reader>>

(* portal.Fetch(chunk_size_) returns n <= chunk_size_ rows; the portal is *)
(* exhausted once a fetch comes back short.  Lines 468-473.               *)
FetchOk(n, RS) ==
  /\ pc = "Fetch"
  /\ LET f0 == [LogSize(Served, n) EXCEPT !.stats.docs_read = @ + n,
                              !.portal_done = (n < chunk_size_),
                              !.scope = kParseStage,
                              !.res_size = n, !.res_left = n,
                              !.g = ObserveSet(@)]
     IN \E rows \in RowsOfLen(RS, RunLength(n, 0, RelaxerPeriod)) :
          \E elapsed \in ElapsedOf(Len(rows) = n /\ chunk_size_ = 0) :
            \E f \in {CacheResults(f0, rows, elapsed)} : Apply(f, data_cache)
  /\ UNCHANGED <<kIncrementalUpdates, chunk_size_, reader>>

(* trx.Commit() returns; the next cluster, or the end of Update.          *)
CommitOk ==
  /\ pc = "Commit"
  /\ LET f0 == [Served EXCEPT !.g.shards_done = @ + 1]
     IN \E elapsed \in ElapsedOf(TRUE) :
          \E f \in {IterateClusters(f0, shard + 1, elapsed)} : Apply(f, data_cache)
  /\ UNCHANGED <<kIncrementalUpdates, chunk_size_, reader>>

(* CacheResults is resumed after the yield of Relax(): the row at the     *)
(* iterator is decoded, then the loop goes on to the next yield.          *)
RelaxResume(RS) ==
  /\ pc = "Relax"
  /\ LET n == 1 + RunLength(res_left - 1, 0, RelaxerPeriod)
     IN \E rows \in RowsOfLen(RS, n) :
          \E elapsed \in ElapsedOf(n = res_left /\ chunk_size_ = 0) :
            \E f \in {CacheResults(Frame, rows, elapsed)} : Apply(f, data_cache)
  /\ UNCHANGED <<kIncrementalUpdates, chunk_size_, reader>>

(* The pending database call raises (transport, transaction, timeout).    *)
DbCalls == {"Execute", "Begin", "MakePortal", "Fetch", "Commit"}
DbError ==
  /\ pc \in DbCalls
  /\ Apply(Throw([Log(Frame, [PendingCall(Frame) EXCEPT !.ok = FALSE])
                     EXCEPT !.g.raised = shard]),
           data_cache)
  /\ UNCHANGED <<kIncrementalUpdates, chunk_size_, reader>>

(* A reader: Get() loads the slot; dropping the handle may destroy the    *)
(* container it was the last owner of.                                    *)
SetReader(r, p) ==
  LET rd == [reader EXCEPT ![r] = p]
      refs == ({published, data_cache} \cup {rd[x] : x \in Readers}) \ {Null}
  IN /\ reader' = rd
     /\ heap' = [i \in Ids |-> IF i \in refs THEN heap[i] ELSE EmptyContainer]
     /\ g' = [g EXCEPT !.whole = [i \in Ids |-> i \in refs /\ @[i]]]
     /\ UNCHANGED <<kIncrementalUpdates, chunk_size_, published,
                    cpu_relax_iterations_, pc, type, query, timeout,
                    data_cache, shard, changes, res_size, res_left,
                    portal_done, scope, stats_scope, ret>>

Get(r) == reader[r] # published /\ SetReader(r, published)
Release(r) == reader[r] # Null /\ SetReader(r, Null)

(* The cache and its database, no reader: every kind of row, few rows.    *)
Next ==
  \/ /\ \E t \in UpdateTypes : Update(t)
     /\ UNCHANGED envVars
  \/ /\ \E n \in 0..(MaxRows - stats_scope.docs_read) : ExecuteOk(n, Rows)
     /\ UNCHANGED envVars
  \/ BeginOk /\ UNCHANGED envVars
  \/ MakePortalOk /\ UNCHANGED envVars
  \/ /\ \E n \in 0..Min(chunk_size_, MaxRows - stats_scope.docs_read) :
          FetchOk(n, Rows)
     /\ UNCHANGED envVars
  \/ CommitOk /\ UNCHANGED envVars
  \/ DbError /\ UNCHANGED envVars

Spec == Init /\ [][Next]_vars

(* The cache, its database and readers: plain rows, enough of them for    *)
(* the relaxer to be switched on and to yield; the policy has an update   *)
(* field, so that updates of both kinds run; rows and snapshots are not    *)
(* recorded in the history.                                               *)
NextReaders ==
  \/ /\ \E t \in UpdateTypes : Update(t)
     /\ UNCHANGED envVars
  \/ /\ \E n \in 0..(MaxRowsYield - stats_scope.docs_read) :
          ExecuteOk(n, PlainRows)
     /\ UNCHANGED envVars
  \/ BeginOk /\ UNCHANGED envVars
  \/ MakePortalOk /\ UNCHANGED envVars
  \/ /\ \E n \in 0..Min(chunk_size_, MaxRowsYield - stats_scope.docs_read) :
          FetchOk(n, PlainRows)
     /\ UNCHANGED envVars
  \/ CommitOk /\ UNCHANGED envVars
  \/ RelaxResume(PlainRows) /\ UNCHANGED envVars
  \/ DbError /\ UNCHANGED envVars
  \/ /\ \E r \in Readers : Get(r)
     /\ UNCHANGED envVars
  \/ /\ \E r \in Readers : Release(r)
     /\ UNCHANGED envVars

SpecReaders == InitReaders /\ [][NextReaders]_vars

(* The cache and its database with the database calls recorded: plain    *)
(* rows, enough of them for several chunks and for the relaxer to be      *)
(* switched on; chunk-size 0 or ChunkCalls.                               *)
InitCalls ==
  /\ kIncrementalUpdates \in BOOLEAN
  /\ policy = PlainPolicy(kIncrementalUpdates, FALSE)
  /\ config = PlainConfig
  /\ ctor = Constructed(NumShards)
  /\ last_update = 0
  /\ db = NoTable
  /\ InitUpdate({0, ChunkCalls}, FALSE, TRUE)

NextCalls ==
  \/ /\ \E t \in UpdateTypes : Update(t)
     /\ UNCHANGED envVars
  \/ /\ \E n \in 0..(MaxRowsYield - stats_scope.docs_read) :
          ExecuteOk(n, PlainRows)
     /\ UNCHANGED envVars
  \/ BeginOk /\ UNCHANGED envVars
  \/ MakePortalOk /\ UNCHANGED envVars
  \/ /\ \E n \in 0..Min(chunk_size_, MaxRowsYield - stats_scope.docs_read) :
          FetchOk(n, PlainRows)
     /\ UNCHANGED envVars
  \/ CommitOk /\ UNCHANGED envVars
  \/ RelaxResume(PlainRows) /\ UNCHANGED envVars
  \/ DbError /\ UNCHANGED envVars

SpecCalls == InitCalls /\ [][NextCalls]_vars

(* The cache and its database with the relaxer's runs recorded: plain     *)
(* rows, enough of them in one update for the adaptation to set a period  *)
(* above 1; chunk-size 0 or 1.                                            *)
InitRelax ==
  /\ kIncrementalUpdates = TRUE
  /\ policy = PlainPolicy(TRUE, FALSE)
  /\ config = PlainConfig
  /\ ctor = Constructed(NumShards)
  /\ last_update = 0
  /\ db = NoTable
  /\ InitRecording({0, 1}, [data |-> FALSE, trace |-> FALSE, relaxer |-> TRUE])

NextRelax ==
  \/ /\ \E t \in UpdateTypes : Update(t)
     /\ UNCHANGED envVars
  \/ /\ \E n \in 0..(MaxRowsRelax - stats_scope.docs_read) :
          ExecuteOk(n, PlainRows)
     /\ UNCHANGED envVars
  \/ BeginOk /\ UNCHANGED envVars
  \/ MakePortalOk /\ UNCHANGED envVars
  \/ /\ \E n \in 0..Min(chunk_size_, MaxRowsRelax - stats_scope.docs_read) :
          FetchOk(n, PlainRows)
     /\ UNCHANGED envVars
  \/ CommitOk /\ UNCHANGED envVars
  \/ RelaxResume(PlainRows) /\ UNCHANGED envVars
  \/ DbError /\ UNCHANGED envVars

SpecRelax == InitRelax /\ [][NextRelax]_vars

(* The same, where every database call that is waited for comes back      *)
(* (with a result or an exception) and the scheduler resumes a task that  *)
(* has yielded: a running Update is not left suspended for ever.  The     *)
(* rows of an update being bounded, a portal is exhausted after finitely  *)
(* many fetches.                                                          *)
Resumed == pc # "Idle" /\ NextCalls
SpecLive == InitCalls /\ [][NextCalls]_vars /\ WF_vars(Resumed)

(* --------------------------- the constructor -------------------------- *)
(* PostgreCache::PostgreCache, lines 339-383, after the base class and    *)
(* the members are initialised.  config.pgcomponent is <<>> when the key  *)
(* is missing; config.shard_count is GetShardCount() of the Postgres      *)
(* component the key names.                                               *)
Policies ==
  {PolicyOf(q, n, w # <<>>, IF w = <<>> THEN "" ELSE w[1], u, FALSE) :
     q \in {"Q", "select k, v from t"}, n \in {"", "N"},
     w \in {<<>>, <<"W">>}, u \in {"", "U"}}
Configs ==
  [allowed : {"kOnlyFull", "kOnlyIncremental", "kFullAndIncremental"},
   correction : {-1, 0, 1},
   pgcomponent : {<<>>, <<"">>, <<"pg">>},
   shard_count : 0..NumShards]

InitCtor ==
  /\ policy \in Policies
  /\ kIncrementalUpdates = kWantIncrementalUpdates(policy)
  /\ config \in Configs
  /\ ctor = [pc |-> "check_allowed", clusters_ |-> <<>>, i |-> 0,
             started |-> 0, error |-> "", logged |-> <<>>]
  /\ last_update = 0
  /\ db = NoTable
  /\ InitUpdate({0}, FALSE, FALSE)

CtorStep(c) ==
  /\ ctor' = c
  /\ UNCHANGED <<progVars, g, policy, config, last_update, db>>
CtorThrow(what) == CtorStep([ctor EXCEPT !.pc = "failed", !.error = what])

\* lines 351-358
AllowedMismatchNever(allowed) == FALSE
AllowedMismatch(allowed) ==
  allowed = "kFullAndIncremental" /\ ~kIncrementalUpdates
CtorCheckAllowed ==
  /\ ctor.pc = "check_allowed"
  /\ IF AllowedMismatch(config.allowed)
       THEN CtorThrow("logic_error: no update field")
       ELSE CtorStep([ctor EXCEPT !.pc = "check_correction"])

\* lines 359-364
CtorCheckCorrection ==
  /\ ctor.pc = "check_correction"
  /\ IF correction_ < 0
       THEN CtorThrow("logic_error: negative correction")
       ELSE CtorStep([ctor EXCEPT !.pc = "pgcomponent"])

\* lines 366-370: config["pgcomponent"].As<std::string>("")
pg_alias == IF config.pgcomponent = <<>> THEN "" ELSE config.pgcomponent[1]
CtorPgComponent ==
  /\ ctor.pc = "pgcomponent"
  /\ IF pg_alias = ""
       THEN CtorThrow("InvalidConfig")
       ELSE CtorStep([ctor EXCEPT !.pc = "resize"])

\* lines 371-373
CtorResize ==
  /\ ctor.pc = "resize"
  /\ CtorStep([ctor EXCEPT !.clusters_ = [i \in 1..config.shard_count |-> Null],
                           !.i = 1, !.pc = "register"])

\* lines 374-376
CtorRegister ==
  /\ ctor.pc = "register"
  /\ IF ctor.i <= config.shard_count
       THEN CtorStep([ctor EXCEPT !.clusters_[ctor.i] = ctor.i, !.i = @ + 1])
       ELSE CtorStep([ctor EXCEPT !.pc = "log"])

\* lines 378-380
CtorLog ==
  /\ ctor.pc = "log"
  /\ CtorStep([ctor EXCEPT
                 !.logged = <<GetAllQuery.statement, GetDeltaQuery.statement>>,
                 !.pc = "start"])

\* line 382
CtorStart ==
  /\ ctor.pc = "start"
  /\ CtorStep([ctor EXCEPT !.started = @ + 1, !.pc = "done"])

(* The periodic task StartPeriodicUpdates() sets going calls Update.      *)
PeriodicUpdate(t) == ctor.started > 0 /\ Update(t)

(* Construction, then updates against a database that cannot be reached.  *)
NextCtor ==
  \/ CtorCheckAllowed
  \/ CtorCheckCorrection
  \/ CtorPgComponent
  \/ CtorResize
  \/ CtorRegister
  \/ CtorLog
  \/ CtorStart
  \/ (\E t \in UpdateTypes : PeriodicUpdate(t)) /\ UNCHANGED envVars
  \/ DbError /\ UNCHANGED envVars

SpecCtor == InitCtor /\ [][NextCtor]_vars

(* ------------------------ the cache over tables ----------------------- *)
(* Behind every cluster a table of at most one row; a row's payload is    *)
(* the value of its update field.  The database answers a statement with  *)
(* the rows that satisfy it, in the order of the table, and a portal      *)
(* hands them out in chunks; it always answers.                           *)
TableRows == [ok : {TRUE}, key : Keys, val : Vals]
Tables == [Shards -> {<<>>} \cup {<<r>> : r \in TableRows}]
LastUpdates == {1, 2}       \* the scheduler's last_update, in ms

Select(tbl, statement, bound) ==
  CASE statement = "Q" -> tbl
    [] statement = "Q where U >= $1" ->
         SelectSeq(tbl, LAMBDA r : r.val >= bound)
    [] statement = "Q where U > $1" ->
         SelectSeq(tbl, LAMBDA r : r.val > bound)
Answer == Select(db.table[ctor.clusters_[shard]], query.statement,
                 GetLastUpdated(last_update, Frame.work))
Range(sq) == {sq[i] : i \in DOMAIN sq}

InitTable ==
  /\ kIncrementalUpdates = TRUE
  /\ \E custom \in BOOLEAN : policy = PlainPolicy(TRUE, custom)
  /\ \E c \in {0, 1} : config = [PlainConfig EXCEPT !.correction = c]
  /\ ctor = Constructed(NumShards)
  /\ last_update = 0
  /\ \E tb \in Tables : db = [table |-> tb, portal |-> <<>>]
  /\ InitUpdate({0, 1}, TRUE, TRUE)

UpdateAt(t, lu) ==
  /\ Update(t)
  /\ last_update' = lu
  /\ UNCHANGED <<policy, config, ctor, db>>
ExecuteTable ==
  /\ ExecuteOk(Len(Answer), Range(Answer))
  /\ g'.calls[Len(g'.calls)].rows = Answer
  /\ UNCHANGED envVars
BeginTable == BeginOk /\ UNCHANGED envVars
MakePortalTable ==
  /\ MakePortalOk
  /\ db' = [db EXCEPT !.portal = Answer]
  /\ UNCHANGED <<policy, config, ctor, last_update>>
FetchTable ==
  /\ LET n == Min(chunk_size_, Len(db.portal))
     IN /\ FetchOk(n, Range(SubSeq(db.portal, 1, n)))
        /\ g'.calls[Len(g'.calls)].rows = SubSeq(db.portal, 1, n)
        /\ db' = [db EXCEPT !.portal = SubSeq(@, n + 1, Len(@))]
  /\ UNCHANGED <<policy, config, ctor, last_update>>
CommitTable == CommitOk /\ UNCHANGED envVars

NextTable ==
  \/ \E t \in UpdateTypes, lu \in LastUpdates : UpdateAt(t, lu)
  \/ ExecuteTable
  \/ BeginTable
  \/ MakePortalTable
  \/ FetchTable
  \/ CommitTable

SpecTable == InitTable /\ [][NextTable]_vars

(* ============================== claims =============================== *)
Returned == pc = "Idle" /\ ret = "returned"
Threw == pc = "Idle" /\ ret = "threw"
Delivered == g.nGood + g.nBad
HandlesHeld == {reader[r] : r \in Readers} \ {Null}

(* upsert(S, R): the last delivered value of every key of R, and the      *)
(* value S holds for every other key.                                     *)
Upserted(S, R) == [k \in Keys |-> IF R[k] # NoVal THEN R[k] ELSE S[k]]

(* C1: whenever a reader holds a handle, and whenever the slot holds one, *)
(* the container it refers to was Set by an update that had read every    *)
(* one of its shards to the end, and it is not the working container of   *)
(* the update that is running: no partial container is observable at any  *)
(* suspension point of Update.                                            *)
C1_OnlyWholeSnapshotsObservable ==
  \A h \in HandlesHeld \cup ({published} \ {Null}) :
    g.whole[h] /\ h # data_cache

(* A reader holds a snapshot while an update that has already decoded a   *)
(* shard into a different working container is suspended in the relaxer.  *)
C1_Witness ==
  /\ pc = "Relax" /\ g.shards_done >= 1 /\ changes >= 1
  /\ \E r \in Readers :
       reader[r] # Null /\ heap[reader[r]] # heap[data_cache]

(* C2: in every step, a container a reader keeps holding, and the         *)
(* published container while it stays published, keep their contents;     *)
(* the only container whose contents a step changes is the working        *)
(* container of the update (or one that is destroyed); and a handle a     *)
(* reader newly obtains is the one in the slot.                           *)
C2_HeldSnapshotsFrozen ==
  [][ /\ \A r \in Readers :
           reader[r] # Null /\ reader'[r] = reader[r]
             => heap'[reader[r]] = heap[reader[r]]
      /\ published # Null /\ published' = published
           => heap'[published] = heap[published]
      /\ \A i \in Ids :
           heap'[i] # heap[i] =>
             \/ i \in {data_cache, data_cache'} /\ i # published
                  /\ i \notin HandlesHeld
             \/ i \notin ({published', data_cache'}
                            \cup {reader'[r] : r \in Readers})
      /\ \A r \in Readers :
           reader'[r] # reader[r] /\ reader'[r] # Null
             => reader'[r] = published
    ]_vars

(* A reader still holds the snapshot of an earlier update after a later   *)
(* update published a different one.                                      *)
C2_Witness ==
  /\ Returned /\ g.sets = 1 /\ published # Null
  /\ \E r \in Readers :
       /\ reader[r] # Null /\ reader[r] # published
       /\ heap[reader[r]] # heap[published]

(* C3: after a database call of shard i raised, Update is over and has    *)
(* thrown, Set was not called, the slot holds the same object with the    *)
(* same contents as when Update was entered, the working container is     *)
(* gone, no terminal statistic was reported, and no shard after i was     *)
(* queried.                                                               *)
C3_DbErrorAbortsUpdate ==
  g.raised # 0 =>
    /\ Threw
    /\ g.sets = 0 /\ published = g.slot0
    /\ published # Null => heap[published] = g.snap0
    /\ data_cache = Null
    /\ g.queried = g.raised
    /\ stats_scope.finish = <<>>

(* The last shard's call raised after rows of an earlier shard had been   *)
(* decoded into the working container; a snapshot was published before.   *)
C3_Witness ==
  /\ Threw /\ g.raised = NumShards /\ g.shards_done = NumShards - 1
  /\ g.nGood >= 1 /\ published # Null
  /\ Upserted(g.snap0, g.rowsR) # g.snap0

(* C4: an incremental update that returns leaves in the slot exactly      *)
(* upsert(S, R), S the snapshot published when it was entered (nothing    *)
(* published: the empty one) and R the rows delivered to it: a key of R   *)
(* holds its last value from R, every other key holds what S held, and    *)
(* every key of S is still present.                                       *)
C4_IncrementalIsUpsert ==
  Returned /\ type = kIncremental /\ published # Null =>
    /\ heap[published] = Upserted(g.snap0, g.rowsR)
    /\ KeySet(g.snap0) \subseteq KeySet(heap[published])
    /\ \A k \in Keys : g.rowsR[k] = NoVal => heap[published][k] = g.snap0[k]

(* An incremental update was published in which one key of S got a new    *)
(* value from R and another key of S, absent from R, was kept.            *)
C4_Witness ==
  /\ Returned /\ type = kIncremental /\ g.sets = 1
  /\ \E k1, k2 \in Keys :
       /\ g.snap0[k1] # NoVal /\ g.rowsR[k1] \notin {NoVal, g.snap0[k1]}
       /\ g.snap0[k2] # NoVal /\ g.rowsR[k2] = NoVal

(* C5: a full update that returns has published a snapshot whose keys are *)
(* exactly the keys of the rows delivered to it (each with the last value *)
(* delivered), whatever was published before; with no row delivered the   *)
(* published snapshot is empty.                                           *)
C5_FullReset ==
  Returned /\ type = kFull =>
    /\ published # Null
    /\ KeySet(heap[published]) = KeySet(g.rowsR)
    /\ heap[published] = g.rowsR
    /\ Delivered = 0 => heap[published] = EmptyContainer

(* A full update removed a key that the previous snapshot held and that   *)
(* its own rows did not bring.                                            *)
C5_Witness ==
  /\ Returned /\ type = kFull /\ Delivered > 0
  /\ \E k \in Keys : g.snap0[k] # NoVal /\ heap[published][k] = NoVal

(* C6: an incremental update on a policy with an update field that was    *)
(* delivered no row and returned did not call Set: the slot holds the     *)
(* same object with the same contents as when it was entered, the working *)
(* container is gone, and the statistics report "no changes".             *)
C6_NoChangeRetention ==
  Returned /\ kIncrementalUpdates /\ g.requested = kIncremental
           /\ Delivered = 0 =>
    /\ g.sets = 0 /\ published = g.slot0
    /\ published # Null => heap[published] = g.snap0
    /\ data_cache = Null
    /\ stats_scope.finish = <<[kind |-> "NoChanges", size |-> 0]>>

(* Such an update ran over a non-empty published snapshot.                *)
C6_Witness ==
  /\ Returned /\ kIncrementalUpdates /\ type = kIncremental /\ Delivered = 0
  /\ g.queried = NumShards
  /\ published # Null /\ Size(heap[published]) > 0

(* C7, as stated: once an Update has returned without an error the slot   *)
(* is never empty.                                                        *)
C7_AsStated == g.ever_returned => published # Null

(* C7, amended: once an Update that was full, or that was delivered at    *)
(* least one row, has returned without an error, the slot is never empty  *)
(* again, whatever later updates do.                                      *)
C7_PublishedOnceLoaded == g.ever_loaded => published # Null

(* After a snapshot was published a later update threw, and the slot      *)
(* still holds a snapshot.                                                *)
C7_Witness == g.ever_loaded /\ Threw /\ g.nGood >= 1 /\ published # Null

(* C8: a row that fails to decode does not end the update: every failure  *)
(* is counted exactly once, the container under construction (and the one *)
(* published at the end) holds the upsert of every row that decodes, the  *)
(* failed rows add no entry, a returned update has counted every          *)
(* delivered row as read, and Update throws only when a database call     *)
(* raised.                                                                *)
C8_ParseFailureIsolation ==
  LET base == IF type = kIncremental THEN g.snap0 ELSE EmptyContainer
  IN /\ stats_scope.parse_failures = g.nBad
     /\ data_cache # Null => heap[data_cache] = Upserted(base, g.rowsR)
     /\ Returned /\ g.sets = 1 => heap[published] = Upserted(base, g.rowsR)
     /\ Returned => stats_scope.docs_read = g.nGood + g.nBad
     /\ ret = "threw" => g.raised # 0

(* Three rows read of which one failed: snapshot size 2, one failure.     *)
C8_Witness ==
  /\ Returned /\ type = kFull /\ g.sets = 1
  /\ stats_scope.docs_read = 3 /\ stats_scope.parse_failures = 1
  /\ Size(heap[published]) = 2

(* C9: on a policy without an update field every Update, whatever kind    *)
(* was requested, runs as a full one: full query, full timeout, a working *)
(* container built from empty, published when it returns; on a policy     *)
(* with an update field the requested kind is the effective one.          *)
C9_KindCoercion ==
  ret # "none" =>
    IF kIncrementalUpdates
      THEN /\ type = g.requested
           /\ query.statement = (IF type = kFull THEN "Q" ELSE "Q where U >= $1")
      ELSE /\ type = kFull /\ query.statement = "Q"
           /\ timeout = full_update_timeout_
           /\ data_cache # Null => heap[data_cache] = g.rowsR
           /\ Returned => g.sets = 1 /\ heap[published] = g.rowsR

(* Requested as incremental on such a policy, over a non-empty snapshot,  *)
(* with no row delivered: an empty snapshot was published.                *)
C9_Witness ==
  /\ ~kIncrementalUpdates /\ g.requested = kIncremental /\ Returned
  /\ g.snap0 # EmptyContainer /\ Delivered = 0
  /\ g.sets = 1 /\ heap[published] = EmptyContainer

(* C10: an update that returns has called Set (once) exactly when its     *)
(* effective kind is full or at least one row was delivered to it,        *)
(* decodable or not; it has reported one terminal statistic, Finish with  *)
(* the size of the published container if it published and "no changes"   *)
(* if not; an update that threw, or is still running, has reported none   *)
(* and has not called Set.                                                *)
C10_PublishPolicy ==
  /\ Returned =>
       /\ g.sets = (IF type = kFull \/ Delivered > 0 THEN 1 ELSE 0)
       /\ g.sets = 1 => stats_scope.finish =
            <<[kind |-> "Finish", size |-> Size(heap[published])]>>
       /\ g.sets = 0 => stats_scope.finish = <<[kind |-> "NoChanges", size |-> 0]>>
  /\ ret \in {"threw", "running"} => g.sets = 0 /\ stats_scope.finish = <<>>

(* An incremental update all of whose rows failed to decode published.    *)
C10_Witness ==
  /\ Returned /\ type = kIncremental /\ g.nGood = 0 /\ g.nBad >= 2
  /\ g.sets = 1 /\ published # Null /\ heap[published] = g.snap0

C13_Construction ==
  LET bad == \/ config.allowed = "kFullAndIncremental"
                  /\ policy.kUpdatedField = ""
             \/ config.correction < 0
             \/ config.pgcomponent \in {<<>>, <<"">>}
  IN /\ bad => /\ ctor.pc \in {"check_allowed", "check_correction",
                                "pgcomponent", "failed"}
               /\ ctor.started = 0 /\ ctor.clusters_ = <<>>
               /\ ret = "none" /\ pc = "Idle"
     /\ ctor.pc = "failed" => bad /\ ctor.error # ""
     /\ ctor.started <= 1
     /\ ctor.started = 1 =>
          /\ ctor.pc = "done"
          /\ ctor.clusters_ = [i \in 1..config.shard_count |-> i]
     /\ ret # "none" => ctor.started = 1

(* A constructed cache with a handle for every shard, whose Update was    *)
(* called and is suspended in its first database call.                *)
C13_Witness ==
  /\ ctor.pc = "done" /\ ctor.started = 1
  /\ Len(ctor.clusters_) = NumShards
  /\ config.allowed = "kFullAndIncremental" /\ config.correction > 0
  /\ pc \in DbCalls /\ shard = 1

(* C15: after an update that returned, with n > 0 rows fetched and a      *)
(* parse phase measured at d > 10 ms, relax_iterations r is the integer   *)
(* part of n / (d / 2): r <= n / (d / 2) < r + 1, that is                 *)
(* r * d <= 2 * n < (r + 1) * d; and r = 0 when n < d / 2.                *)
C15_RelaxAdaptation ==
  Returned /\ stats_scope.docs_read > 0 /\ g.elapsed > 10 =>
    LET n == stats_scope.docs_read
        d == g.elapsed
        r == cpu_relax_iterations_
    IN /\ r * d <= 2 * n /\ 2 * n < (r + 1) * d
       /\ 2 * n < d => r = 0

(* 6 rows parsed in 11 ms: relaxing, which was off, is set to every row.  *)
C15_Witness ==
  /\ Returned /\ stats_scope.docs_read = 6 /\ g.elapsed = 11
  /\ g.relax0 = 0 /\ cpu_relax_iterations_ = 1

(* C17: with chunk-size c > 0 the database calls of an update are, shard  *)
(* after shard in the order of clusters_: Begin (read-only), MakePortal,  *)
(* one Fetch(c) after another, each of at most c rows and each gone       *)
(* through by CacheResults before the next call, as long as the last one  *)
(* came back with c rows, then Commit, then the next shard's Begin; with  *)
(* chunk-size 0 they are one Execute per shard and nothing else.  An      *)
(* update that returned has ended with the last shard's Commit (Execute). *)
C17_ChunkedProtocol ==
  LET L == g.calls
      c == chunk_size_
      Whole(a) == a.size # <<>> /\ Len(a.rows) = a.size[1]
      Follows(a, b) ==
        CASE a.op = "Begin" -> b.op = "MakePortal" /\ b.cluster = a.cluster
          [] a.op = "MakePortal" -> b.op = "Fetch" /\ b.cluster = a.cluster
          [] a.op = "Fetch" ->
               /\ Whole(a) /\ b.cluster = a.cluster
               /\ b.op = (IF a.size[1] = c THEN "Fetch" ELSE "Commit")
          [] a.op = "Commit" -> b.op = "Begin" /\ b.cluster = a.cluster + 1
          [] a.op = "Execute" ->
               Whole(a) /\ b.op = "Execute" /\ b.cluster = a.cluster + 1
  IN /\ \A i \in DOMAIN L :
          /\ L[i].op \in (IF c > 0 THEN {"Begin", "MakePortal", "Fetch", "Commit"}
                                  ELSE {"Execute"})
          /\ L[i].op = "Begin" => L[i].mode = <<"RO">>
          /\ L[i].op = "Fetch" =>
               L[i].n = <<c>> /\ (L[i].size # <<>> => L[i].size[1] <= c)
     /\ L # <<>> => L[1].cluster = 1 /\ L[1].op \in {"Begin", "Execute"}
     /\ \A i \in 1..(Len(L) - 1) : L[i].ok /\ Follows(L[i], L[i + 1])
     /\ Returned =>
          /\ L # <<>> /\ L[Len(L)].ok /\ L[Len(L)].cluster = NumShards
          /\ L[Len(L)].op \in {"Commit", "Execute"}

(* chunk-size 2 and a shard of 5 rows: fetches of 2, 2 and 1 rows, then   *)
(* the commit.                                                            *)
C17_Witness ==
  /\ chunk_size_ = 2
  /\ \E i \in DOMAIN g.calls :
       /\ i + 4 <= Len(g.calls)
       /\ g.calls[i].op = "MakePortal"
       /\ g.calls[i + 1].op = "Fetch" /\ g.calls[i + 1].size = <<2>>
       /\ g.calls[i + 2].op = "Fetch" /\ g.calls[i + 2].size = <<2>>
       /\ g.calls[i + 3].op = "Fetch" /\ g.calls[i + 3].size = <<1>>
       /\ g.calls[i + 4].op = "Commit"

(* C19: every Execute and every Begin of an update carries the command    *)
(* control {timeout, 0} with the full-update timeout when the effective   *)
(* kind is full and the incremental-update timeout when it is             *)
(* incremental; every Execute and every MakePortal carries the full       *)
(* statement, respectively the delta statement; on every shard alike.     *)
C19_QueryAndTimeout ==
  \A i \in DOMAIN g.calls :
    LET c == g.calls[i]
    IN /\ c.op \in {"Execute", "Begin"} =>
            c.cc = <<[network |-> IF type = kFull THEN 60000 ELSE 1000,
                      statement |-> 0]>>
       /\ c.op \in {"Execute", "MakePortal"} =>
            /\ c.query # <<>>
            /\ c.query[1].statement =
                 (IF type = kFull THEN "Q" ELSE "Q where U >= $1")

(* An incremental update in chunks has opened the last shard's portal.    *)
C19_Witness ==
  /\ type = kIncremental /\ chunk_size_ > 0 /\ NumShards > 1
  /\ \E i \in DOMAIN g.calls :
       g.calls[i].op = "MakePortal" /\ g.calls[i].cluster = NumShards

(* ---- history of an update over tables ---- *)
\* the container Update started from
Base == IF type = kIncremental /\ g.slot0 # Null THEN g.snap0 ELSE EmptyContainer
RECURSIVE RowsOf(_)
RowsOf(calls) ==
  IF calls = <<>> THEN <<>> ELSE Head(calls).rows \o RowsOf(Tail(calls))
\* the working snapshot when call i was issued: the rows of the calls
\* before it upserted into the base
WorkAt(i) ==
  Upserted(Base, LastByKey(EmptyContainer, RowsOf(SubSeq(g.calls, 1, i - 1))))
MaxRevision(c) ==
  IF KeySet(c) = {} THEN 0
  ELSE CHOOSE m \in {c[k] : k \in KeySet(c)} : \A k \in KeySet(c) : c[k] <= m
Bounded == {i \in DOMAIN g.calls : g.calls[i].bound # <<>>}

(* C20: the bound parameter of each shard's query.  Without a policy      *)
(* override it is last_update - correction for every shard, and not later *)
(* than last_update; with a policy-defined GetLastKnownUpdated it is      *)
(* the function's value on the working snapshot as it stands when the     *)
(* shard is reached, rows of earlier shards of this update included.  It  *)
(* is passed once per shard: no shard has two calls that carry a bound,   *)
(* and in an update that returned every shard has one.                    *)
C20_DeltaBound ==
  /\ \A i \in Bounded :
       /\ g.calls[i].op \in {"Execute", "MakePortal"}
       /\ IF policy.kHasCustomUpdated
            THEN g.calls[i].bound = <<MaxRevision(WorkAt(i))>>
            ELSE /\ g.calls[i].bound = <<last_update - config.correction>>
                 /\ g.calls[i].bound[1] <= last_update
       /\ \A j \in Bounded : g.calls[j].cluster = g.calls[i].cluster => j = i
  /\ Returned =>
       \A s \in Shards : \E i \in Bounded : g.calls[i].cluster = s

C20_Witness ==
  /\ Returned /\ type = kIncremental /\ policy.kHasCustomUpdated
  /\ chunk_size_ > 0
  /\ MaxRevision(Base) = 1
  /\ \E i \in Bounded :
       /\ g.calls[i].cluster = 2 /\ g.calls[i].bound = <<2>>
       /\ \E j \in 1..(i - 1) : g.calls[j].op = "Fetch" /\ g.calls[j].rows # <<>>

\* the clusters an update put its query to, in the order of the calls
Queried ==
  LET qs == SelectSeq(g.calls, LAMBDA c : c.op \in {"Execute", "MakePortal"})
  IN [i \in DOMAIN qs |-> qs[i].cluster]
RECURSIVE SumSizes(_)
SumSizes(calls) ==
  IF calls = <<>> THEN 0
  ELSE (IF Head(calls).size = <<>> THEN 0 ELSE Head(calls).size[1])
         + SumSizes(Tail(calls))
DistinctKeys(rows) ==
  \A i, j \in DOMAIN rows : rows[i].key = rows[j].key => i = j

(* C16: an update that returned has put its query to every registered     *)
(* shard exactly once, in the order of the shard list, and has been       *)
(* through every row each shard answered with; what it published is the   *)
(* base upserted with the rows of all shards; if it was full and the rows *)
(* have distinct keys, the published size is the number of decoded rows;  *)
(* documents-read is the sum of the sizes of all result sets and chunks.  *)
C16_MultiShardFanIn ==
  Returned =>
    /\ Queried = ctor.clusters_
    /\ \A i, j \in DOMAIN g.calls :
         i <= j => g.calls[i].cluster <= g.calls[j].cluster
    /\ \A i \in Bounded :
         ResultSet(g.calls, g.calls[i].cluster)
           = Select(db.table[g.calls[i].cluster], query.statement,
                    g.calls[i].bound[1])
    /\ g.sets = 1 =>
         heap[published]
           = Upserted(Base, LastByKey(EmptyContainer, RowsOf(g.calls)))
    /\ type = kFull /\ DistinctKeys(RowsOf(g.calls)) =>
         Size(heap[published]) = g.nGood
    /\ stats_scope.docs_read = SumSizes(g.calls)
    /\ stats_scope.docs_read = Len(RowsOf(g.calls))

C16_Witness ==
  /\ Returned /\ type = kFull
  /\ \A s \in Shards : Len(ResultSet(g.calls, s)) = 1
  /\ DistinctKeys(RowsOf(g.calls))
  /\ Size(heap[published]) = NumShards
  /\ stats_scope.docs_read = NumShards

\* the table rows the container holds as they are
Holds(c, tbl) == \A i \in DOMAIN tbl : c[tbl[i].key] = tbl[i].val

(* C12: as the documentation of the component has it, an incremental      *)
(* update takes from the database only rows whose update field is         *)
(* strictly greater than the bound; so, with GetLastKnownUpdated the      *)
(* largest revision in the cache, an incremental update of a cache that   *)
(* holds every row of the tables reads no row and reports no changes.     *)
C12_AsDocumented ==
  type = kIncremental =>
    /\ \A i \in Bounded :
         \A n \in DOMAIN ResultSet(g.calls, g.calls[i].cluster) :
           ResultSet(g.calls, g.calls[i].cluster)[n].val > g.calls[i].bound[1]
    /\ ( /\ Returned /\ policy.kHasCustomUpdated /\ g.slot0 # Null
          /\ \A s \in Shards : Holds(g.snap0, db.table[s]) )
         => /\ stats_scope.docs_read = 0
            /\ stats_scope.finish = <<[kind |-> "NoChanges", size |-> 0]>>

\* the content of the slot, <<>> while nothing is published
Content == IF published = Null THEN <<>> ELSE <<heap[published]>>
Results == [s \in Shards |-> ResultSet(g.calls, s)]

(* C14: idempotence.  When an update returns, and the update before it    *)
(* returned too, was of the same kind and was answered by every shard     *)
(* with the same result set, the content of the published snapshot is     *)
(* what it was after the update before.                                   *)
C14_Idempotence ==
  ( /\ Returned /\ g.prev.returned
    /\ g.prev.type = type
    /\ g.prev.results = Results )
  => Content = g.prev.pub

C14_Witness ==
  /\ Returned /\ g.prev.returned
  /\ g.prev.type = type /\ type = kIncremental
  /\ g.prev.results = Results
  /\ \A s \in Shards : Results[s] # <<>>
  /\ g.sets = 1
  /\ Content = g.prev.pub

(* ---- one update as a function of the order the shards are taken in ---- *)
\* Lines 459-487 over the clusters of order: each is asked the update's
\* query with the bound the working container gives, and its answer is
\* upserted into the working container.
RECURSIVE FanIn(_, _)
FanIn(acc, order) ==
  IF order = <<>> THEN acc
  ELSE LET ans == Select(db.table[Head(order)], query.statement,
                         GetLastUpdated(last_update, acc.work))
           r == CacheRows([data |-> acc.work, failures |-> 0], ans)
       IN FanIn([work |-> r.data, rows |-> acc.rows \o ans], Tail(order))
RowsUnder(order) == FanIn([work |-> Base, rows |-> <<>>], order).rows
\* the content of the slot after the update, had it taken the shards in
\* this order (lines 504-510)
Outcome(order) ==
  LET a == FanIn([work |-> Base, rows |-> <<>>], order)
  IN IF ShouldPublish([changes |-> Len(a.rows), type |-> type])
       THEN <<a.work>>
       ELSE IF g.slot0 = Null THEN <<>> ELSE <<g.snap0>>
Orders ==
  {o \in [DOMAIN ctor.clusters_ -> Range(ctor.clusters_)] :
     \A i, j \in DOMAIN o : o[i] = o[j] => i = j}

(* C18 as stated: when the rows the shards return within one update have  *)
(* pairwise distinct keys, the published snapshot is the same for every   *)
(* order the shards may be taken in, for full and incremental updates.    *)
C18_AsStated ==
  Returned =>
    \A o \in Orders :
      DistinctKeys(RowsUnder(ctor.clusters_)) /\ DistinctKeys(RowsUnder(o))
        => Outcome(o) = Content

(* C18, amended: the update that returned published what the fold over    *)
(* the shard list gives; and for a full update, or a policy that does not *)
(* define GetLastKnownUpdated, rows of pairwise distinct keys give the    *)
(* same published snapshot for every order of the shards.                 *)
C18_ShardOrderIndependence ==
  Returned =>
    /\ Outcome(ctor.clusters_) = Content
    /\ RowsUnder(ctor.clusters_) = RowsOf(g.calls)
    /\ (type = kFull \/ ~policy.kHasCustomUpdated) =>
         \A o \in Orders :
           DistinctKeys(RowsUnder(ctor.clusters_)) /\ DistinctKeys(RowsUnder(o))
             => Outcome(o) = Content

C18_Witness ==
  /\ Returned /\ type = kIncremental /\ ~policy.kHasCustomUpdated
  /\ \A s \in Shards : Len(ResultSet(g.calls, s)) = 1
  /\ DistinctKeys(RowsOf(g.calls))
  /\ \E o \in Orders :
       /\ o # ctor.clusters_
       /\ RowsUnder(o) # RowsUnder(ctor.clusters_)
       /\ DistinctKeys(RowsUnder(o))
       /\ Outcome(o) = Content

(* C21: phase attribution.  While a shard's database round-trip is in     *)
(* progress (Execute, or Begin, MakePortal, Fetch) the running phase is   *)
(* `fetch`, for every shard, chunked or not; the `parse` phase runs only  *)
(* while rows are decoded, never while Update waits for the database.     *)
C21_PhaseAttribution ==
  /\ pc \in {"Execute", "Begin", "MakePortal", "Fetch"} => scope = kFetchStage
  /\ pc \in DbCalls => scope # kParseStage

(* C22: relax_iterations is 0 until an update has run; an update leaves   *)
(* it as it found it while it runs, when it fails with a database error,  *)
(* when it returns having fetched no row, and when it returns with a      *)
(* parse phase of at most 10 ms; and the relaxer of a running update      *)
(* works with the value the update before left: it yields only if that    *)
(* value is positive, and with that period.                               *)
C22_RelaxPersistence ==
  /\ ret = "none" => cpu_relax_iterations_ = 0
  /\ pc # "Idle" => cpu_relax_iterations_ = g.relax0
  /\ Threw => cpu_relax_iterations_ = g.relax0
  /\ Returned /\ (stats_scope.docs_read = 0 \/ g.elapsed <= kCpuRelaxThreshold)
       => cpu_relax_iterations_ = g.relax0
  /\ pc = "Relax" =>
       /\ g.relax0 > 0
       /\ (res_size - res_left + 1) % g.relax0 = 0

C22_Witness ==
  /\ Returned /\ g.relax0 = 1
  /\ stats_scope.docs_read = 0 /\ g.elapsed > kCpuRelaxThreshold
  /\ cpu_relax_iterations_ = 1

(* C23 as stated: during an update with relax_iterations = N > 0 no more  *)
(* than N consecutive rows of the update are decoded without the relaxer  *)
(* yielding, counted across chunk and shard boundaries; with N = 0        *)
(* decoding never yields.                                                 *)
C23_AsStated ==
  /\ g.relax0 > 0 => g.longest <= g.relax0
  /\ g.relax0 = 0 => g.yields = 0

(* C23, amended: the relaxer counts within one result set.  With          *)
(* relax_iterations = N > 0 Update yields before every N-th row of a      *)
(* result set, so no more than N consecutive rows of one result set are   *)
(* decoded without a yield; a result set or chunk of fewer than N rows    *)
(* is decoded without one, so with 0 < chunk-size < N the relaxer never   *)
(* yields; with N = 0 decoding never yields.                              *)
C23_YieldWithinResultSet ==
  /\ g.relax0 > 0 => g.longest_set <= g.relax0
  /\ pc = "Relax" =>
       /\ g.relax0 > 0
       /\ (res_size - res_left + 1) % g.relax0 = 0
       /\ res_size >= g.relax0
  /\ 0 < chunk_size_ /\ chunk_size_ < g.relax0 => g.yields = 0
  /\ g.relax0 = 0 => g.yields = 0

C23_Witness ==
  /\ pc = "Relax" /\ g.relax0 = 2 /\ g.yields = 2
  /\ res_size - res_left = 3
  /\ g.longest_set = 2

(* ---- the course of one Update ---- *)
\* from where Update is suspended to where it is suspended next
PcEdges ==
  {<<"Idle", "Execute">>, <<"Idle", "Begin">>,
   <<"Execute", "Relax">>, <<"Execute", "Execute">>, <<"Execute", "Idle">>,
   <<"Begin", "MakePortal">>, <<"Begin", "Idle">>,
   <<"MakePortal", "Fetch">>, <<"MakePortal", "Idle">>,
   <<"Fetch", "Relax">>, <<"Fetch", "Fetch">>, <<"Fetch", "Commit">>,
   <<"Fetch", "Idle">>,
   <<"Relax", "Relax">>, <<"Relax", "Execute">>, <<"Relax", "Fetch">>,
   <<"Relax", "Commit">>, <<"Relax", "Idle">>,
   <<"Commit", "Begin">>, <<"Commit", "Idle">>}
Running ==
  /\ data_cache # Null /\ ret = "running"
  /\ shard \in DOMAIN ctor.clusters_
  /\ stats_scope.finish = <<>> /\ g.sets = 0
  /\ pc \in DbCalls =>
       \A i \in DOMAIN g.calls :
         g.calls[i].size # <<>> => Len(g.calls[i].rows) = g.calls[i].size[1]
Ended ==
  /\ data_cache = Null
  /\ Returned =>
       /\ g.shards_done = Len(ctor.clusters_)
       /\ g.calls # <<>>
       /\ g.calls[Len(g.calls)].cluster = ctor.clusters_[Len(ctor.clusters_)]
       /\ g.calls[Len(g.calls)].op = IF chunk_size_ > 0 THEN "Commit" ELSE "Execute"
       /\ Len(stats_scope.finish) = 1
       /\ g.sets = (IF stats_scope.finish[1].kind = "Finish" THEN 1 ELSE 0)
  /\ Threw => g.sets = 0 /\ stats_scope.finish = <<>>
UpdateStep ==
  /\ <<pc, pc'>> \in PcEdges
  /\ pc = "Idle" => pc' # "Idle" /\ shard' = 1 /\ g'.calls = <<>>
  /\ pc # "Idle" /\ pc' # "Idle" =>
       /\ shard' \in {shard, shard + 1}
       /\ data_cache' = data_cache /\ published' = published
  /\ pc' = "Idle" /\ pc \in {"Begin", "MakePortal", "Fetch"} => ret' = "threw"
  /\ pc' = "Idle" /\ ret' = "threw" => published' = published

(* C24: the course of an Update.  The working snapshot exists before the  *)
(* first shard is queried; each result set is decoded to its end before   *)
(* the next database call; Update goes from one suspension point to the   *)
(* next only along the edges Idle, (Execute | Begin, MakePortal, Fetch*,  *)
(* Commit) per shard with yields in between, Idle; it publishes or        *)
(* reports no changes only when it returns, after the last shard was read *)
(* to the end and, in chunked mode, committed; an error ends it without   *)
(* publication.  And every Update that was started ends, if database      *)
(* calls come back and yielded tasks are resumed.                         *)
C24_UpdateCourse ==
  /\ [](IF pc = "Idle" THEN Ended ELSE Running)
  /\ [][UpdateStep]_vars
  /\ (pc # "Idle") ~> (pc = "Idle")

C24_Witness ==
  /\ Returned /\ chunk_size_ > 0 /\ g.relax0 = 1
  /\ g.sets = 1 /\ stats_scope.docs_read >= 3
  /\ Len(g.calls) >= 4 * NumShards
====
